---- MODULE Spec2Model ----
(***************************************************************************)
(* A model of the KAMAR API client (src/index.js): one KAMAR session, the  *)
(* promise-based dispatch `fetch`, and the decoders built on it.           *)
(*                                                                         *)
(* Encoding of JavaScript values:                                          *)
(*   - an object is a function from its keys (strings) to values;          *)
(*     "key in object" is  k \in DOMAIN o;                                 *)
(*   - an array is a sequence (1-based here, 0-based in the source);       *)
(*   - an optional value (possibly undefined) is <<>> or <<v>>;            *)
(*   - text that the code slices or matches is a sequence of one-character *)
(*     strings;                                                            *)
(*   - a value a promise settles with carries a tag t naming its JS type;   *)
(*     an array or a map a method resolves with is held under a field      *)
(*     named after its content ([Absences |-> ...], [Students |-> ...]).   *)
(***************************************************************************)
EXTENDS Integers, Sequences, FiniteSets, Bags, TLC

\* Bounds of the model.
MaxCalls == 2       \* promises the caller holds at one time
MaxWeeks == 2       \* weeks in an attendance response

VARIABLES
    WkNo,       \* this.WkNo: <<>> while undefined, <<n>> once assigned
    calls,      \* bag of the promises (calls) the caller currently holds
    arg,        \* input of the decoder under unit exploration
    ret         \* its output, <<>> until the decoder has run

vars == <<WkNo, calls, arg, ret>>

----------------------------------------------------------------------------
\* JavaScript helpers

Has(o, k) == k \in DOMAIN o

EmptyObject == [k \in {} |-> <<>>]

\* a falsiness test that forgets undefined
Falsy_OnlyZero(x) == x # <<>> /\ x[1] = 0

\* !x for an optional number: undefined and 0 are falsy
Falsy(x) == x = <<>> \/ x[1] = 0

ErrorObj(name, message) == [t |-> "Error", name |-> name, message |-> message]
TypeError == ErrorObj("TypeError", "")
Str(s) == [t |-> "string", text |-> s]
Text(chars) == [t |-> "string", chars |-> chars]
Val(x) == [t |-> "value", v |-> x]
Null == [t |-> "null"]

\* A throw inside a decoder, and a normal return
Throw(e) == [ok |-> FALSE, err |-> e]
Return(v) == [ok |-> TRUE, val |-> v]

----------------------------------------------------------------------------
\* Promises: the first resolve/reject settles, later ones are ignored.

PendingPromise == [state |-> "pending", value |-> Null]

reject(p, v) == IF p.state = "pending" THEN [state |-> "rejected", value |-> v] ELSE p

resolve(p, v) == IF p.state = "pending" THEN [state |-> "resolved", value |-> v] ELSE p

----------------------------------------------------------------------------
\* KAMAR.constructor: the session's configuration

this == [portal |-> "school.example", year |-> "2024", TT |-> "2024TT",
         UserAgent |-> "Katal API for KAMAR"]

----------------------------------------------------------------------------
\* KAMAR.fetch

RequestError == ErrorObj("RequestError", "")
ParseError == ErrorObj("XMLParseError", "")

\* xml2js parseString(body, cb): calls cb(err, result) once.  An undefined
\* body (the transport failed) and a malformed body give an error and no
\* result; a document gives its root object.
parseString(body) ==
    IF body = <<>> THEN [err |-> <<TypeError>>, result |-> <<>>]
    ELSE IF body[1].xml = "malformed" THEN [err |-> <<ParseError>>, result |-> <<>>]
    ELSE [err |-> <<>>, result |-> <<body[1].root>>]

\* looks for Error on the root instead of on its sole result element
EnvelopeHasError_TopLevel(result, thing) == Has(result, "Error")

EnvelopeHasError(result, thing) == Has(result[thing], "Error")

\* The request callback (err, response, body) => { ... } of fetch, run on a
\* pending promise.  No branch returns: after reject(err) the body is still
\* parsed, and Object.keys(undefined) then throws out of the callback.
fetch_callback(err, body) ==
    LET p1 == IF err # <<>> THEN reject(PendingPromise, err[1]) ELSE PendingPromise
        parsed == parseString(body)
        p2 == IF parsed.err # <<>> THEN reject(p1, parsed.err[1]) ELSE p1
    IN  IF parsed.result = <<>>
        THEN [promise |-> p2, parses |-> 1, uncaught |-> TRUE]
        ELSE LET result == parsed.result[1]
                 thing == CHOOSE k \in DOMAIN result : TRUE
                 p3 == IF EnvelopeHasError(result, thing)
                       THEN reject(p2, [t |-> "object",
                                        error |-> result[thing].Error[1],
                                        code |-> result[thing].ErrorCode[1]])
                       ELSE p2
             IN  [promise |-> resolve(p3, Val(result)), parses |-> 1, uncaught |-> FALSE]

----------------------------------------------------------------------------
\* Text: a string is a sequence of one-character strings.

Undefined == <<"undefined">>        \* the value undefined where text is expected

Min(a, b) == IF a < b THEN a ELSE b

\* s.substring(0, n)
substring(s, n) == SubSeq(s, 1, Min(n, Len(s)))

\* s.match(pat) for a pattern without metacharacters: pat occurs in s
match(s, pat) ==
    \E i \in 1..(Len(s) - Len(pat) + 1) : SubSeq(s, i, i + Len(pat) - 1) = pat

\* s.split(ch): the pieces of s between the occurrences of the character ch
RECURSIVE split(_, _)
split(s, ch) ==
    LET at == {j \in 1..Len(s) : s[j] = ch}
        i == CHOOSE j \in at : \A k \in at : j <= k
    IN  IF at = {} THEN <<s>>
        ELSE <<SubSeq(s, 1, i - 1)>> \o split(SubSeq(s, i + 1, Len(s)), ch)

\* parts.join(ch) for a non-empty array of texts; its split(ch) is parts
RECURSIVE Join(_, _)
Join(parts, ch) ==
    IF Len(parts) = 1 THEN parts[1]
    ELSE parts[1] \o <<ch>> \o Join(Tail(parts), ch)

\* the text an array of texts turns into where a text or a number is
\* expected: its elements joined with ','
ArrayText(a) == Join(a, ",")

\* a[i] for a 0-based index i of the source
At(a, i) == IF (i + 1) \in DOMAIN a THEN a[i + 1] ELSE Undefined

DigitValue(c) ==
    CASE c = "0" -> 0 [] c = "1" -> 1 [] c = "2" -> 2 [] c = "3" -> 3 [] c = "4" -> 4
      [] c = "5" -> 5 [] c = "6" -> 6 [] c = "7" -> 7 [] c = "8" -> 8 [] c = "9" -> 9
      [] c \in {"a", "A"} -> 10 [] c \in {"b", "B"} -> 11 [] c \in {"c", "C"} -> 12
      [] c \in {"d", "D"} -> 13 [] c \in {"e", "E"} -> 14 [] c \in {"f", "F"} -> 15

\* the white space ToNumber drops around a numeric text: space, TAB, LF, CR,
\* FF and VT (U+000B, written as the character itself).  These are the ASCII
\* members of StrWhiteSpace; its other members (U+00A0, U+1680, U+2000 to
\* U+200A, U+2028, U+2029, U+202F, U+205F, U+3000, U+FEFF) lie outside the
\* characters a text of this model is made of, which are ASCII.
StrWhiteSpace == {" ", "\t", "\n", "\r", "\f", ""}

Trim(s) ==
    LET ink == {i \in 1..Len(s) : s[i] \notin StrWhiteSpace}
    IN  IF ink = {} THEN <<>>
        ELSE SubSeq(s, CHOOSE i \in ink : \A j \in ink : i <= j,
                       CHOOSE i \in ink : \A j \in ink : i >= j)

\* ToNumber of a text, as Number(text) and text == 0 apply it: white space
\* around the literal is dropped; '' is 0; 0x/0o/0b literals take no sign; a
\* decimal literal is [+-] digits [. digits] [e [+-] digits] with a digit in
\* its mantissa, or [+-] Infinity; everything else is NaN.  The result is
\* classed NaN, zero (0 and -0), integer (an integer below 10^9 in size, with
\* its value), Infinity, or decimal / radix: the double nearest to
\* coefficient * 10^exp10, resp. to the digits read in the radix.  A decimal
\* of at most half the smallest double rounds to zero, one of at least the
\* midpoint of the largest double and 2^1024 to Infinity (ties go to even).
StringToNumber(s) ==
    LET Dec == {"0","1","2","3","4","5","6","7","8","9"}
        Within(u, set) == \A i \in 1..Len(u) : u[i] \in set
        First(u, set) == CHOOSE i \in 1..(Len(u) + 1) :
                             /\ i = Len(u) + 1 \/ u[i] \in set
                             /\ \A j \in 1..(i - 1) : u[j] \notin set
        Strip(u) == LET nz == {i \in 1..Len(u) : u[i] # "0"}
                    IN  IF nz = {} THEN <<>>
                        ELSE SubSeq(u, CHOOSE i \in nz : \A j \in nz : i <= j, Len(u))
        StripEnd(u) == LET nz == {i \in 1..Len(u) : u[i] # "0"}
                       IN  IF nz = {} THEN <<>>
                           ELSE SubSeq(u, 1, CHOOSE i \in nz : \A j \in nz : i >= j)
        Value(u, radix) == LET v[i \in 0..Len(u)] ==
                                   IF i = 0 THEN 0 ELSE radix * v[i - 1] + DigitValue(u[i])
                           IN  v[Len(u)]
        \* the digit strings u and bound compared as fractions 0.u and 0.bound
        Cmp(u, bound) == LET at(w, i) == IF i <= Len(w) THEN w[i] ELSE "0"
                             n == IF Len(u) > Len(bound) THEN Len(u) ELSE Len(bound)
                             diff == {i \in 1..n : at(u, i) # at(bound, i)}
                             k == CHOOSE i \in diff : \A j \in diff : i <= j
                         IN  IF diff = {} THEN 0
                             ELSE IF DigitValue(at(u, k)) < DigitValue(at(bound, k))
                             THEN -1 ELSE 1
        \* the digits of 2^-1075 = 5^1075 * 10^-1075 = 2.47...e-324, half the
        \* smallest double
        MinBound ==
            <<"2","4","7","0","3","2","8","2","2","9","2","0","6","2","3","2","7","2","0","8",
              "8","2","8","4","3","9","6","4","3","4","1","1","0","6","8","6","1","8","2","5",
              "2","9","9","0","1","3","0","7","1","6","2","3","8","2","2","1","2","7","9","2",
              "8","4","1","2","5","0","3","3","7","7","5","3","6","3","5","1","0","4","3","7",
              "5","9","3","2","6","4","9","9","1","8","1","8","0","8","1","7","9","9","6","1",
              "8","9","8","9","8","2","8","2","3","4","7","7","2","2","8","5","8","8","6","5",
              "4","6","3","3","2","8","3","5","5","1","7","7","9","6","9","8","9","8","1","9",
              "9","3","8","7","3","9","8","0","0","5","3","9","0","9","3","9","0","6","3","1",
              "5","0","3","5","6","5","9","5","1","5","5","7","0","2","2","6","3","9","2","2",
              "9","0","8","5","8","3","9","2","4","4","9","1","0","5","1","8","4","4","3","5",
              "9","3","1","8","0","2","8","4","9","9","3","6","5","3","6","1","5","2","5","0",
              "0","3","1","9","3","7","0","4","5","7","6","7","8","2","4","9","2","1","9","3",
              "6","5","6","2","3","6","6","9","8","6","3","6","5","8","4","8","0","7","5","7",
              "0","0","1","5","8","5","7","6","9","2","6","9","9","0","3","7","0","6","3","1",
              "1","9","2","8","2","7","9","5","5","8","5","5","1","3","3","2","9","2","7","8",
              "3","4","3","3","8","4","0","9","3","5","1","9","7","8","0","1","5","5","3","1",
              "2","4","6","5","9","7","2","6","3","5","7","9","5","7","4","6","2","2","7","6",
              "6","4","6","5","2","7","2","8","2","7","2","2","0","0","5","6","3","7","4","0",
              "0","6","4","8","5","4","9","9","9","7","7","0","9","6","5","9","9","4","7","0",
              "4","5","4","0","2","0","8","2","8","1","6","6","2","2","6","2","3","7","8","5",
              "7","3","9","3","4","5","0","7","3","6","3","3","9","0","0","7","9","6","7","7",
              "6","1","9","3","0","5","7","7","5","0","6","7","4","0","1","7","6","3","2","4",
              "6","7","3","6","0","0","9","6","8","9","5","1","3","4","0","5","3","5","5","3",
              "7","4","5","8","5","1","6","6","6","1","1","3","4","2","2","3","7","6","6","6",
              "7","8","6","0","4","1","6","2","1","5","9","6","8","0","4","6","1","9","1","4",
              "4","6","7","2","9","1","8","4","0","3","0","0","5","3","0","0","5","7","5","3",
              "0","8","4","9","0","4","8","7","6","5","3","9","1","7","1","1","3","8","6","5",
              "9","1","6","4","6","2","3","9","5","2","4","9","1","2","6","2","3","6","5","3",
              "8","8","1","8","7","9","6","3","6","2","3","9","3","7","3","2","8","0","4","2",
              "3","8","9","1","0","1","8","6","7","2","3","4","8","4","9","7","6","6","8","2",
              "3","5","0","8","9","8","6","3","3","8","8","5","8","7","9","2","5","6","2","8",
              "3","0","2","7","5","5","9","9","5","6","5","7","5","2","4","4","5","5","5","0",
              "7","2","5","5","1","8","9","3","1","3","6","9","0","8","3","6","2","5","4","7",
              "7","9","1","8","6","9","4","8","6","6","7","9","9","4","9","6","8","3","2","4",
              "0","4","9","7","0","5","8","2","1","0","2","8","5","1","3","1","8","5","4","5",
              "1","3","9","6","2","1","3","8","3","7","7","2","2","8","2","6","1","4","5","4",
              "3","7","6","9","3","4","1","2","5","3","2","0","9","8","5","9","1","3","2","7",
              "6","6","7","2","3","6","3","2","8","1","2","5">>
        \* the digits of 2^1024 - 2^970 = 1.79...e308, half way from the largest
        \* double to 2^1024
        MaxBound ==
            <<"1","7","9","7","6","9","3","1","3","4","8","6","2","3","1","5","8","0","7","9",
              "3","7","2","8","9","7","1","4","0","5","3","0","3","4","1","5","0","7","9","9",
              "3","4","1","3","2","7","1","0","0","3","7","8","2","6","9","3","6","1","7","3",
              "7","7","8","9","8","0","4","4","4","9","6","8","2","9","2","7","6","4","7","5",
              "0","9","4","6","6","4","9","0","1","7","9","7","7","5","8","7","2","0","7","0",
              "9","6","3","3","0","2","8","6","4","1","6","6","9","2","8","8","7","9","1","0",
              "9","4","6","5","5","5","5","4","7","8","5","1","9","4","0","4","0","2","6","3",
              "0","6","5","7","4","8","8","6","7","1","5","0","5","8","2","0","6","8","1","9",
              "0","8","9","0","2","0","0","0","7","0","8","3","8","3","6","7","6","2","7","3",
              "8","5","4","8","4","5","8","1","7","7","1","1","5","3","1","7","6","4","4","7",
              "5","7","3","0","2","7","0","0","6","9","8","5","5","5","7","1","3","6","6","9",
              "5","9","6","2","2","8","4","2","9","1","4","8","1","9","8","6","0","8","3","4",
              "9","3","6","4","7","5","2","9","2","7","1","9","0","7","4","1","6","8","4","4",
              "4","3","6","5","5","1","0","7","0","4","3","4","2","7","1","1","5","5","9","6",
              "9","9","5","0","8","0","9","3","0","4","2","8","8","0","1","7","7","9","0","4",
              "1","7","4","4","9","7","7","9","2">>
        NaN == [class |-> "NaN"]
        Zero == [class |-> "zero"]
        Integer(neg, n) == [class |-> "integer", value |-> IF neg THEN 0 - n ELSE n]
        \* the digits sig, without leading zeros, read in the radix
        Radix(radix, sig, maxlen) ==
            IF sig = <<>> THEN Zero
            ELSE IF Len(sig) <= maxlen THEN Integer(FALSE, Value(sig, radix))
            ELSE [class |-> "radix", radix |-> radix, digits |-> sig]
        NonDecimal(d, radix, set, maxlen) ==
            IF d = <<>> \/ ~Within(d, set) THEN NaN ELSE Radix(radix, Strip(d), maxlen)
        \* C * 10^X, C without trailing zeros
        Finite(neg, C, X) ==
            IF X >= 0 /\ Len(C) + X <= 9 THEN Integer(neg, Value(C, 10) * 10^X)
            ELSE [class |-> "decimal", neg |-> neg, coefficient |-> C, exp10 |-> X]
        \* 0.D * 10^(q + 1), D without leading zeros: q is the power of ten of
        \* the first digit; places is the number of fraction digits less E
        Rounded(neg, D, q, places) ==
            IF D = <<>> THEN Zero
            ELSE IF q < -324 \/ (q = -324 /\ Cmp(D, MinBound) <= 0) THEN Zero
            ELSE IF q > 308 \/ (q = 308 /\ Cmp(D, MaxBound) >= 0)
            THEN [class |-> "Infinity", neg |-> neg]
            ELSE Finite(neg, StripEnd(D), Len(D) - Len(StripEnd(D)) - places)
        Scaled(neg, D, lenF, E) == Rounded(neg, D, Len(D) - 1 - lenF + E, lenF - E)
        \* the exponent digits xs, without leading zeros
        Exponent(expNeg, xs) ==
            IF Len(xs) > 7 THEN (IF expNeg THEN -100000000 ELSE 100000000)
            ELSE IF expNeg THEN 0 - Value(xs, 10) ELSE Value(xs, 10)
        Parts(neg, I, F, hasExp, expNeg, expDigits) ==
            IF /\ Within(I, Dec)
               /\ Within(F, Dec)
               /\ Len(I) + Len(F) > 0
               /\ hasExp => (expDigits # <<>> /\ Within(expDigits, Dec))
            THEN Scaled(neg, Strip(I \o F), Len(F),
                        IF hasExp THEN Exponent(expNeg, Strip(expDigits)) ELSE 0)
            ELSE NaN
        Mantissa(neg, mant, dot, hasExp, expo) ==
            Parts(neg, SubSeq(mant, 1, dot - 1), SubSeq(mant, dot + 1, Len(mant)), hasExp,
                  expo # <<>> /\ expo[1] = "-",
                  IF expo # <<>> /\ expo[1] \in {"+", "-"} THEN Tail(expo) ELSE expo)
        Split(neg, mant, hasExp, expo) == Mantissa(neg, mant, First(mant, {"."}), hasExp, expo)
        Body(neg, body, ePos) ==
            IF body = <<"I","n","f","i","n","i","t","y">>
            THEN [class |-> "Infinity", neg |-> neg]
            ELSE Split(neg, SubSeq(body, 1, ePos - 1), ePos <= Len(body),
                       SubSeq(body, ePos + 1, Len(body)))
        Decimal(neg, body) == Body(neg, body, First(body, {"e", "E"}))
        Literal(t) ==
            IF t = <<>> THEN Zero
            ELSE IF Len(t) >= 2 /\ t[1] = "0" /\ t[2] \in {"x", "X"}
            THEN NonDecimal(SubSeq(t, 3, Len(t)), 16,
                            Dec \cup {"a","b","c","d","e","f","A","B","C","D","E","F"}, 7)
            ELSE IF Len(t) >= 2 /\ t[1] = "0" /\ t[2] \in {"o", "O"}
            THEN NonDecimal(SubSeq(t, 3, Len(t)), 8, {"0","1","2","3","4","5","6","7"}, 10)
            ELSE IF Len(t) >= 2 /\ t[1] = "0" /\ t[2] \in {"b", "B"}
            THEN NonDecimal(SubSeq(t, 3, Len(t)), 2, {"0", "1"}, 30)
            ELSE Decimal(t[1] = "-", IF t[1] \in {"+", "-"} THEN Tail(t) ELSE t)
    IN  Literal(Trim(s))

\* x == 0 for a text x: the text converted with ToNumber is 0 or -0
LooseEqZero(s) == StringToNumber(s).class = "zero"

----------------------------------------------------------------------------
\* KAMAR.getResults

T_Excellence == <<"E","x","c","e","l","l","e","n","c","e">>
T_Merit == <<"M","e","r","i","t">>
T_Not == <<"N","o","t">>
T_Achievement == <<"A","c","h","i","e","v","e","m","e","n","t">>
T_Achieved == <<"A","c","h","i","e","v","e","d">>

\* the chain with Achieve(ment|d) tested before Not
NormalizedGrade_AchieveFirst(orgGrade) ==
    IF match(orgGrade, T_Excellence) THEN <<"E">>
    ELSE IF match(orgGrade, T_Merit) THEN <<"M">>
    ELSE IF match(orgGrade, T_Achievement) \/ match(orgGrade, T_Achieved) THEN <<"A">>
    ELSE IF match(orgGrade, T_Not) THEN <<"N">>
    ELSE orgGrade

\* The first matching branch of the if/else-if chain decides; the final else
\* only logs and leaves grade = orgGrade.
NormalizedGrade(orgGrade) ==
    IF match(orgGrade, T_Excellence) THEN <<"E">>
    ELSE IF match(orgGrade, T_Merit) THEN <<"M">>
    ELSE IF match(orgGrade, T_Not) THEN <<"N">>
    ELSE IF match(orgGrade, T_Achievement) \/ match(orgGrade, T_Achieved) THEN <<"A">>
    ELSE orgGrade

\* colourGrade returns the pair [orgGrade, grade]
colourGrade(orgGrade) == <<orgGrade, NormalizedGrade(orgGrade)>>

ResultFields == {"Title", "Grade", "ResultPublished", "Credits"}

\* RES[h].NCEALevel != 0: the array itself is compared, undefined != 0
IsNCEA(level) ==
    ~Has(level, "NCEALevel") \/ ~LooseEqZero(ArrayText(level.NCEALevel))

\* the object pushed for Result[i] of level RES[h]
ResultRecord(level, r) ==
    [title |-> r.Title[1],
     grade |-> colourGrade(r.Grade[1]),
     datePublished |-> r.ResultPublished[1],
     NCEAStandard |-> IF IsNCEA(level)
                      THEN r.Number[1] \o <<" ", "v">> \o r.Version[1]
                      ELSE <<>>,
     Credits |-> IF ~LooseEqZero(r.Credits[1])
                 THEN r.CreditsPassed[1] \o <<"/">> \o r.Credits[1]
                 ELSE <<>>,
     NCEALevel |-> IF IsNCEA(level)
                   THEN <<"L","e","v","e","l"," ">>
                        \o (IF Has(level, "NCEALevel") THEN ArrayText(level.NCEALevel)
                            ELSE <<"u","n","d","e","f","i","n","e","d">>)
                   ELSE <<>>]

\* whether building the record for r reads a field r lacks (a TypeError)
ResultThrows(level, r) ==
    \/ ~(ResultFields \subseteq DOMAIN r)
    \/ IsNCEA(level) /\ ~({"Number", "Version"} \subseteq DOMAIN r)
    \/ ~LooseEqZero(r.Credits[1]) /\ ~Has(r, "CreditsPassed")

\* the .then handler of getResults: the value it resolves with, or a throw
getResults_then(response) ==
    IF ~Has(response, "StudentResultsResults")
       \/ ~Has(response.StudentResultsResults, "ResultLevels")
       \/ ~Has(response.StudentResultsResults.ResultLevels[1], "ResultLevel")
    THEN Throw(TypeError)
    ELSE LET RES == response.StudentResultsResults.ResultLevels[1].ResultLevel
         IN  IF \E h \in DOMAIN RES :
                    \/ ~Has(RES[h], "Results")
                    \/ ~Has(RES[h].Results[1], "Result")
                    \/ \E i \in DOMAIN RES[h].Results[1].Result :
                           ResultThrows(RES[h], RES[h].Results[1].Result[i])
             THEN Throw(TypeError)
             ELSE Return([ncea |-> [h \in DOMAIN RES |-> IsNCEA(RES[h])],
                          results |-> [h \in DOMAIN RES |->
                              [i \in DOMAIN RES[h].Results[1].Result |->
                                  ResultRecord(RES[h], RES[h].Results[1].Result[i])]]])

----------------------------------------------------------------------------
\* KAMAR.getAbsences

daysManifest == <<"Mon", "Tue", "Wed", "Thu", "Fri">>

T_Placeholder == <<"-","-","-","-","-","-","-","-","-","-">>

\* days[j]._ || '----------' : the text of the slot unless absent or ''
DayText(day) == IF Has(day, "_") /\ day["_"] # <<>> THEN day["_"] ELSE T_Placeholder

\* (days[j]._ || '----------').substring(0, 7)
DayStatus(day) == substring(DayText(day), 7)

\* the key Absences[i] is assigned under for day j (0-based):
\* daysManifest[j], which is undefined from j = 5 on
DayKey(j) == IF j < Len(daysManifest) THEN daysManifest[j + 1] ELSE "undefined"

\* Absences[i] for one well-shaped week: WeekStart under $, then one entry
\* per element of Days[0].Day; a later day with the same key overwrites.
WeekAbsences(week) ==
    LET days == week.Days[1].Day
        keys == {DayKey(j - 1) : j \in DOMAIN days}
        last(k) == CHOOSE j \in DOMAIN days :
                       /\ DayKey(j - 1) = k
                       /\ \A m \in DOMAIN days : DayKey(m - 1) = k => m <= j
    IN  [k \in keys \cup {"$"} |->
            IF k = "$" THEN week.WeekStart[1] ELSE DayStatus(days[last(k)])]

WeekThrows(week) ==
    \/ ~Has(week, "WeekStart")
    \/ ~Has(week, "Days")
    \/ ~Has(week.Days[1], "Day")

WeeksAbsent(response) ==
    \/ ~Has(response, "StudentAttendanceResults")
    \/ ~Has(response.StudentAttendanceResults, "Weeks")

NoAbsencesWkNo == <<1>>

\* the index of the last week instead of the number of weeks
DecodedWkNo_LastIndex(Absences) == <<Len(Absences) - 1>>

DecodedWkNo(Absences) == <<Len(Absences)>>

\* The .then handler of getAbsences, run with this.WkNo = wk: the settled
\* promise and the value this.WkNo has afterwards.
getAbsences_then(response, wk) ==
    IF WeeksAbsent(response)
    THEN [promise |-> reject(PendingPromise, Str("No Absences setup, assuming week 1")),
          WkNo |-> NoAbsencesWkNo]
    ELSE IF \/ ~Has(response.StudentAttendanceResults.Weeks[1], "Week")
            \/ \E i \in DOMAIN response.StudentAttendanceResults.Weeks[1].Week :
                   WeekThrows(response.StudentAttendanceResults.Weeks[1].Week[i])
    THEN [promise |-> reject(PendingPromise, TypeError), WkNo |-> wk]
    ELSE LET Ar == response.StudentAttendanceResults.Weeks[1].Week
             Absences == [i \in DOMAIN Ar |-> WeekAbsences(Ar[i])]
         IN  [promise |-> resolve(PendingPromise, Val([Absences |-> Absences])),
              WkNo |-> DecodedWkNo(Absences)]

----------------------------------------------------------------------------
\* KAMAR.getTimeTable

\* a value is truthy as text: neither undefined nor ''
Truthy(x) == x # Undefined /\ x # <<>>

\* a period whose location is field 4 whatever it holds
PeriodOf_NoFallback(slot) ==
    LET Px == split(slot, "-")
    IN  [subject |-> At(Px, 2),
         location |-> At(Px, 4),
         teacher |-> At(Px, 3)]

\* the period object built from one slot of a day string
PeriodOf(slot) ==
    LET Px == split(slot, "-")
    IN  [subject |-> At(Px, 2),
         location |-> IF Truthy(At(Px, 4)) THEN At(Px, 4) ELSE At(Px, 2),
         teacher |-> At(Px, 3)]

\* split('|') followed by  .length = 8 : longer arrays are cut, shorter ones
\* are filled up with undefined
DaySlots(dayString) ==
    LET parts == split(dayString, "|")
    IN  [i \in 1..8 |-> IF i <= Len(parts) THEN parts[i] ELSE Undefined]

\* periods 1..7 of a day; undefined.split throws on a filled-up slot
DayThrows(dayString) ==
    LET slots == DaySlots(dayString)
    IN  \E period \in 1..7 : slots[period + 1] = Undefined

DayPeriods(dayString) ==
    LET slots == DaySlots(dayString)
    IN  [period \in 1..7 |-> PeriodOf(slots[period + 1])]

WeekKey(WeekNumber) == <<"W", WeekNumber>>

DayKeyTT(day) == <<"D", day>>

TimetablePathThrows(response) ==
    \/ ~Has(response, "StudentTimetableResults")
    \/ ~Has(response.StudentTimetableResults, "Students")
    \/ ~Has(response.StudentTimetableResults.Students[1], "Student")
    \/ ~Has(response.StudentTimetableResults.Students[1].Student[1], "TimetableData")

\* getTimetableForWeek(weekOffset) inside the .then handler, with the
\* handler's response and the thisWkNo captured by the call
getTimetableForWeek(response, thisWkNo, weekOffset) ==
    IF TimetablePathThrows(response) THEN Throw(TypeError)
    ELSE LET TT == response.StudentTimetableResults.Students[1].Student[1].TimetableData
             WeekNumber == thisWkNo + weekOffset
         IN  IF \/ ~Has(TT[1], WeekKey(WeekNumber))
                \/ \E day \in 1..5 :
                       \/ ~Has(TT[1][WeekKey(WeekNumber)][1], DayKeyTT(day))
                       \/ DayThrows(TT[1][WeekKey(WeekNumber)][1][DayKeyTT(day)][1])
             THEN Throw(TypeError)
             ELSE LET HTMout == [day \in 1..5 |->
                          DayPeriods(TT[1][WeekKey(WeekNumber)][1][DayKeyTT(day)][1])]
                  IN  Return([weekNo |-> WeekNumber,
                              MO |-> HTMout[1], TU |-> HTMout[2], WE |-> HTMout[3],
                              TH |-> HTMout[4], FR |-> HTMout[5]])

\* reading this.WkNo when the response arrives
TimetableBase_Live(thisWkNo, currentWkNo) == currentWkNo

\* the week number the handler starts from: the value captured at the call
TimetableBase(thisWkNo, currentWkNo) == thisWkNo

\* a handler that delivers the weeks it could decode
getTimeTable_then_Partial(response, thisWkNo, currentWkNo) ==
    LET base == TimetableBase(thisWkNo, currentWkNo)
        thisWk == getTimetableForWeek(response, base[1], 0)
        nextWk == getTimetableForWeek(response, base[1], 1)
    IN  IF ~thisWk.ok THEN Throw(thisWk.err)
        ELSE IF ~nextWk.ok THEN Return([thisWk |-> thisWk.val])
        ELSE Return([thisWk |-> thisWk.val, nextWk |-> nextWk.val])

\* the .then handler of getTimeTable: resolve({thisWk: ..., nextWk: ...}) is
\* reached only when both getTimetableForWeek calls returned
getTimeTable_then(response, thisWkNo, currentWkNo) ==
    LET base == TimetableBase(thisWkNo, currentWkNo)
        thisWk == getTimetableForWeek(response, base[1], 0)
        nextWk == getTimetableForWeek(response, base[1], 1)
    IN  IF ~thisWk.ok THEN Throw(thisWk.err)
        ELSE IF ~nextWk.ok THEN Throw(nextWk.err)
        ELSE Return([thisWk |-> thisWk.val, nextWk |-> nextWk.val])

\* the request form getTimeTable builds
TimeTableForm(credentials) ==
    IF credentials.authLevel = 10
    THEN [Command |-> "GetTeacherTimetable", Key |-> credentials.key,
          Grid |-> this.TT, Tchr |-> credentials.username]
    ELSE [Command |-> "GetStudentTimetable", Key |-> credentials.key,
          StudentID |-> credentials.username, Grid |-> this.TT]

StateErrorMessage ==
    "You must fetch the Absences before you can download the TimeTable - see https://github.com/TGS-App/API/issues/1"

----------------------------------------------------------------------------
\* How a .then(...).catch(err => reject(err)) chain settles the promise the
\* method returned: a throw in the handler reaches the catch and rejects (if
\* the promise is still pending), a return value passed to resolve resolves.

Settle(p, outcome) ==
    IF outcome.ok THEN resolve(p, Val(outcome.val)) ELSE reject(p, outcome.err)

----------------------------------------------------------------------------
\* KAMAR.authenticate

\* Number(x) for the array x xml2js built for an element (<<>> when the
\* element is missing, i.e. x is undefined): the array is converted to the
\* text of its elements joined with ','.  <<>> stands for NaN; -0 is
\* written 0.
Number(x) ==
    IF x = <<>> THEN <<>>
    ELSE LET n == StringToNumber(ArrayText(x))
         IN  CASE n.class = "NaN" -> <<>>
               [] n.class = "zero" -> <<0>>
               [] n.class = "integer" -> <<n.value>>
               [] OTHER -> <<n>>

T_YES == <<"Y","E","S">>

authenticate_then(userObj, result) ==
    IF ~Has(result, "LogonResults") THEN reject(PendingPromise, TypeError)
    ELSE LET LR == result.LogonResults
         IN  IF Has(LR, "Success") /\ LR.Success[1] = T_YES
             THEN IF ~Has(LR, "Key") THEN reject(PendingPromise, TypeError)
                  ELSE resolve(PendingPromise,
                           Val([username |-> userObj.username,
                                key |-> LR.Key[1],
                                authLevel |-> Number(IF Has(LR, "LogonLevel")
                                                     THEN LR.LogonLevel ELSE <<>>)]))
             ELSE IF Has(LR, "Error") THEN reject(PendingPromise, Str(LR.Error[1]))
                  ELSE reject(PendingPromise, TypeError)

----------------------------------------------------------------------------
\* KAMAR.getAbsencesStatistics

getAbsencesStatistics_then(response) ==
    IF ~Has(response, "StudentAbsenceStatsResults") THEN reject(PendingPromise, TypeError)
    ELSE LET R == response.StudentAbsenceStatsResults
             p1 == IF ~Has(R, "NumberRecords")
                   THEN reject(PendingPromise, ErrorObj("Error", "No Absence Records"))
                   ELSE PendingPromise
         IN  IF ~Has(R, "Students") \/ ~Has(R.Students[1], "Student")
             THEN reject(p1, TypeError)
             ELSE resolve(p1, Val(R.Students[1].Student[1]))

----------------------------------------------------------------------------
\* KAMAR.getCalendar

\* x[0] || undefined
OrUndefined(x) == IF x[1] = <<>> THEN Undefined ELSE x[1]

CalendarDayFields == {"Status", "DayTT", "Term", "Week"}

\* the property name days[i].Date turns into: the array as text, and the
\* text 'undefined' for a day without Date
DateKey(day) ==
    IF Has(day, "Date") THEN ArrayText(day.Date)
    ELSE <<"u","n","d","e","f","i","n","e","d">>

CalendarEntry(day) ==
    [status |-> day.Status[1], TTday |-> OrUndefined(day.DayTT),
     term |-> OrUndefined(day.Term), week |-> OrUndefined(day.Week)]

getCalendar_then(response) ==
    IF ~Has(response, "CalendarResults") \/ ~Has(response.CalendarResults, "ErrorCode")
    THEN reject(PendingPromise, TypeError)
    ELSE LET CR == response.CalendarResults
             p1 == IF ~LooseEqZero(CR.ErrorCode[1])
                   THEN reject(PendingPromise, Text(CR.ErrorCode[1]))
                   ELSE PendingPromise
         IN  IF \/ ~Has(CR, "Days")
                \/ ~Has(CR.Days[1], "Day")
                \/ \E i \in DOMAIN CR.Days[1].Day :
                       ~(CalendarDayFields \subseteq DOMAIN CR.Days[1].Day[i])
             THEN reject(p1, TypeError)
             ELSE LET days == CR.Days[1].Day
                      last(k) == CHOOSE i \in DOMAIN days :
                                     /\ DateKey(days[i]) = k
                                     /\ \A m \in DOMAIN days : DateKey(days[m]) = k => m <= i
                      \* resp['__proto__'] = {...} replaces the prototype of
                      \* resp and makes no property of its own
                      keys == {DateKey(days[i]) : i \in DOMAIN days}
                              \ {<<"_","_","p","r","o","t","o","_","_">>}
                  IN  resolve(p1, Val([Calendar |->
                                          [k \in keys |-> CalendarEntry(days[last(k)])]]))

----------------------------------------------------------------------------
\* KAMAR.searchStudents

searchStudents_then(response) ==
    IF ~Has(response, "SearchStudentsResults") THEN reject(PendingPromise, TypeError)
    ELSE LET R == response.SearchStudentsResults
             first == IF Has(R, "Students") THEN R.Students[1] ELSE EmptyObject
         IN  resolve(PendingPromise,
                     Val([Students |-> IF Has(first, "Student") THEN first.Student
                                       ELSE <<>>]))

----------------------------------------------------------------------------
\* KAMAR.sendCommand

sendCommand_then(result) == resolve(PendingPromise, Val(result))

----------------------------------------------------------------------------
\* KAMAR.getDetails

DetailsFields ==
    {"FirstName", "ForeNames", "LastName", "StudentID", "Gender", "Ethnicity",
     "DateBirth", "Age", "NSN",
     "ParentTitle", "ParentEmail", "ParentSalutation", "HomePhone", "HomeAddress",
     "ParentTitleB", "ParentEmailB", "ParentSalutationB", "HomePhoneB", "HomeAddressB",
     "MotherName", "MotherEmail", "MotherPhoneHome", "MotherPhoneCell",
     "MotherPhoneWork", "MotherOccupation", "MotherWorkAddress", "MotherStatus",
     "MotherNotes",
     "FatherName", "FatherEmail", "FatherPhoneHome", "FatherPhoneCell",
     "FatherPhoneWork", "FatherOccupation", "FatherWorkAddress", "FatherStatus",
     "FatherNotes",
     "EmergencyName", "EmergencyPhoneHome", "EmergencyPhoneCell",
     "EmergencyPhoneWork", "EmergencyNotes",
     "AllowedPanadol", "AllowedIbuprofen", "HealthFlag", "Medical", "Reactions",
     "Vaccinations", "SpecialCircumstances", "GeneralNotes", "HealthNotes"}

ParentRecord(s, who) ==
    [Name |-> s[who \o "Name"][1], Email |-> s[who \o "Email"][1],
     phHome |-> s[who \o "PhoneHome"][1], phCell |-> s[who \o "PhoneCell"][1],
     phWork |-> s[who \o "PhoneWork"][1], Job |-> s[who \o "Occupation"][1],
     Work |-> s[who \o "WorkAddress"][1], Status |-> s[who \o "Status"][1],
     Notes |-> s[who \o "Notes"][1]]

\* the object getDetails resolves with, for the student record s
DetailsRecord(s) ==
    [Names |-> <<s.FirstName[1], s.ForeNames[1], s.LastName[1]>>,
     ID |-> s.StudentID[1],
     Gender |-> <<IF s.Gender[1] = "Male" THEN "glyph-male" ELSE "glyph-other",
                  s.Gender[1]>>,
     Ethnicity |-> s.Ethnicity[1],
     Birthday |-> <<s.DateBirth[1], s.Age[1]>>,
     NSN |-> s.NSN[1],
     LifeA |-> [Parent |-> [Title |-> s.ParentTitle[1], Email |-> s.ParentEmail[1],
                            Name |-> s.ParentSalutation[1]],
                Phone |-> s.HomePhone[1], Address |-> s.HomeAddress[1]],
     LifeB |-> [Parent |-> [Title |-> s.ParentTitleB[1], Email |-> s.ParentEmailB[1],
                            Name |-> s.ParentSalutationB[1]],
                Phone |-> s.HomePhoneB[1], Address |-> s.HomeAddressB[1]],
     Mother |-> ParentRecord(s, "Mother"),
     Father |-> ParentRecord(s, "Father"),
     EmergencyContact |-> [Name |-> s.EmergencyName[1],
                           phHome |-> s.EmergencyPhoneHome[1],
                           phCell |-> s.EmergencyPhoneCell[1],
                           phWork |-> s.EmergencyPhoneWork[1],
                           Notes |-> s.EmergencyNotes[1]],
     Allowed_Panadol |-> s.AllowedPanadol[1] = "Y",
     Allowed_Ibuprofen |-> s.AllowedIbuprofen[1] = "Y",
     Health_Flag |-> s.HealthFlag[1] = "Y",
     Medical |-> IF s.Medical[1] = "" THEN "No" ELSE s.Medical[1],
     Reactions |-> s.Reactions[1],
     Vaccinations |-> s.Vaccinations[1],
     Special_Circumstances |-> s.SpecialCircumstances[1],
     General_Notes |-> s.GeneralNotes[1],
     Health_Notes |-> s.HealthNotes[1]]

getDetails_then(response) ==
    IF \/ ~Has(response, "StudentDetailsResults")
       \/ ~Has(response.StudentDetailsResults, "Students")
       \/ ~Has(response.StudentDetailsResults.Students[1], "Student")
       \/ ~(DetailsFields \subseteq
              DOMAIN response.StudentDetailsResults.Students[1].Student[1])
    THEN reject(PendingPromise, TypeError)
    ELSE resolve(PendingPromise,
                 Val(DetailsRecord(response.StudentDetailsResults.Students[1].Student[1])))

----------------------------------------------------------------------------
\* KAMAR.makevCardFromDetails

\* address.replace(/\n/g, '\\n') on an address given as its characters
EscapeNewlines(a) == [i \in DOMAIN a |-> IF a[i] = "\n" THEN "\\n" ELSE a[i]]

\* the lines of the card, each a sequence of text pieces; the method joins
\* them with '\n'.  now is (new Date()).toISOString().
vCardLines(credentials, d, now) ==
    << <<"BEGIN:VCARD">>,
       <<"VERSION:4.0">>,
       <<"N:", d.Names[3], ";", d.Names[2], ";;;">>,
       <<"NICKNAME:", d.Names[1]>>,
       <<"FN:", d.Names[2]>>,
       <<"ORG:Takapuna Grammar School Student #", d.ID>>,
       <<"GENDER:", d.Gender[2]>>,
       <<"TITLE:", d.Ethnicity>>,
       <<"PHOTO;MEDIATYPE=image/jpeg:https://", this.portal, "/api/img.php?Key=",
         credentials.key, "&Stuid=", d.ID>>,
       <<"TEL;TYPE=home,voice;home=uri:", d.LifeA.Phone>>,
       <<"ADR;TYPE=home;home=\"">> \o EscapeNewlines(d.LifeA.Address) \o <<"\":;;">>
           \o EscapeNewlines(d.LifeA.Address),
       <<"EMAIL:", d.ID, "@tgs.school.nz">>,
       <<"REV:", now>>,
       <<"BDAY:", d.Birthday[1]>>,
       <<"NOTE:Emergency Contact: ", d.EmergencyContact.Name, " (",
         d.EmergencyContact.phCell, ")">>,
       <<"END:VCARD">> >>

----------------------------------------------------------------------------
\* KAMAR.getNCEASummary

cols == <<"NotAchieved", "Achieved", "Merit", "Excellence", "Total", "Attempted">>

QualificationFields == <<"L1NCEA", "L2NCEA", "L3NCEA", "NCEAUELIT", "NCEAL1LIT", "NCEANUM">>

QualificationLabels == <<1, 2, 3, "UE Literacy", "L1 Literacy", "Numeracy">>

\* !bucket.X ? '' : otherwise  -- an array, even ['0'], is truthy; only an
\* absent field gives ''.  The value kept is the array itself.
CreditCell(tested, taken, col) ==
    IF ~Has(tested, col) THEN <<>>
    ELSE IF Has(taken, col) THEN taken[col] ELSE Undefined

BlankTuple == [j \in 1..6 |-> <<>>]

\* tt(yt): one <tr> per entry of $[yt+'Totals'][0][yt+'Total'], as a sequence
\* of text pieces
ttRow(row, yt) ==
    <<"<td><strong>", row[yt][1], "</strong></td>">>
    \o [j \in 1..(3 * Len(cols)) |->
           IF j % 3 = 1 THEN "<td>"
           ELSE IF j % 3 = 0 THEN "</td>"
           ELSE IF Has(row, cols[(j + 1) \div 3]) THEN row[cols[(j + 1) \div 3]][1]
           ELSE ""]

RECURSIVE JoinRows(_)
JoinRows(rows) ==
    IF rows = <<>> THEN <<>>
    ELSE IF Len(rows) = 1 THEN rows[1]
    ELSE rows[1] \o <<"</tr><tr>">> \o JoinRows(Tail(rows))

ttThrows(student, yt) ==
    \/ ~Has(student, yt \o "Totals")
    \/ ~Has(student[yt \o "Totals"][1], yt \o "Total")
    \/ \E i \in DOMAIN student[yt \o "Totals"][1][yt \o "Total"] :
           ~Has(student[yt \o "Totals"][1][yt \o "Total"][i], yt)

tt(student, yt) ==
    LET s == student[yt \o "Totals"][1][yt \o "Total"]
    IN  <<"<tr>">> \o JoinRows([i \in DOMAIN s |-> ttRow(s[i], yt)]) \o <<"</tr>">>

NCEASummaryThrows(student) ==
    \/ ~Has(student, "NCEA")
    \/ \E q \in 1..6 : ~Has(student.NCEA[1], QualificationFields[q])
    \/ Has(student, "CreditsTotal") /\ ~Has(student, "CreditsInternal")
    \/ ttThrows(student, "Year")
    \/ ttThrows(student, "Level")

\* the object literal built as the second argument of resolve
NCEASummaryRecord(student) ==
    [qualification |-> [q \in 1..6 |->
                           <<QualificationLabels[q], student.NCEA[1][QualificationFields[q]][1]>>],
     thisYear |->
        [Internal |-> IF Has(student, "CreditsInternal")
                      THEN [j \in 1..6 |-> CreditCell(student.CreditsInternal[1],
                                                      student.CreditsInternal[1], cols[j])]
                      ELSE BlankTuple,
         External |-> IF Has(student, "CreditsExternal")
                      THEN [j \in 1..6 |-> CreditCell(student.CreditsExternal[1],
                                                      student.CreditsExternal[1], cols[j])]
                      ELSE BlankTuple,
         Total |-> IF Has(student, "CreditsTotal")
                   THEN [j \in 1..6 |->
                            CreditCell(IF cols[j] = "Merit" THEN student.CreditsInternal[1]
                                       ELSE student.CreditsTotal[1],
                                       student.CreditsTotal[1], cols[j])]
                   ELSE BlankTuple],
     year |-> tt(student, "Year"),
     level |-> tt(student, "Level")]

\* what resolve(null, {...}) settles the promise with: its first argument
ResolvedSummary(summary) == Null

getNCEASummary_then(response) ==
    IF \/ ~Has(response, "StudentNCEASummaryResults")
       \/ ~Has(response.StudentNCEASummaryResults, "Students")
       \/ ~Has(response.StudentNCEASummaryResults.Students[1], "Student")
       \/ NCEASummaryThrows(response.StudentNCEASummaryResults.Students[1].Student[1])
    THEN reject(PendingPromise, TypeError)
    ELSE [state |-> "resolved",
          value |-> ResolvedSummary(
              NCEASummaryRecord(response.StudentNCEASummaryResults.Students[1].Student[1]))]

----------------------------------------------------------------------------
\* The callers' inputs and the remote service's replies explored by the model

Rep(c, n) == [i \in 1..n |-> c]

Student == [username |-> "15999", key |-> "key-s", authLevel |-> 1]
Teacher == [username |-> "ABC", key |-> "key-t", authLevel |-> 10]
Credentials == {Student, Teacher}

\* a root object whose result element reports an error
ErrorRoot(key) == [k \in {key} |-> [Error |-> <<"Invalid Key">>, ErrorCode |-> <<"-3">>]]

Root(key, body) == [k \in {key} |-> body]

Slot(text) == [k \in {"_"} |-> text]

AttendanceWeek(n) ==
    [WeekStart |-> <<"week-" \o ToString(n)>>,
     Days |-> <<[Day |-> <<Slot(Rep("P", 10)), Slot(Rep("L", 7)), EmptyObject,
                          Slot(Rep("?", 3)), Slot(<<>>)>>]>>]

AttendanceResponses ==
    {Root("StudentAttendanceResults", EmptyObject),
     Root("StudentAttendanceResults", [Weeks |-> <<EmptyObject>>]),
     Root("StudentAttendanceResults",
          [Weeks |-> <<[Week |-> <<AttendanceWeek(1), EmptyObject>>]>>])}
    \cup {Root("StudentAttendanceResults",
               [Weeks |-> <<[Week |-> [i \in 1..n |-> AttendanceWeek(i)]]>>])
          : n \in 1..MaxWeeks}

\* one period slot "A-B-<subject>-<teacher>-<room>"; the subject names the week
PeriodSlot(n, room) == <<"A", "-", "B", "-", "M", ToString(n), "-", "T", "-">> \o room

\* a day string: the header slot and seven period slots, the last without room
DayString(n) ==
    <<"H">> \o <<"|">> \o PeriodSlot(n, <<"R">>) \o <<"|">> \o PeriodSlot(n, <<"R">>)
    \o <<"|">> \o PeriodSlot(n, <<"R">>) \o <<"|">> \o PeriodSlot(n, <<"R">>)
    \o <<"|">> \o PeriodSlot(n, <<"R">>) \o <<"|">> \o PeriodSlot(n, <<"R">>)
    \o <<"|">> \o PeriodSlot(n, <<>>)

\* a timetable holding the weeks 1..K
TimetableRoot(K) ==
    Root("StudentTimetableResults",
         [Students |-> <<[Student |-> <<[TimetableData |->
             <<[wk \in {WeekKey(n) : n \in 1..K} |->
                   <<[dk \in {DayKeyTT(d) : d \in 1..5} |-> <<DayString(wk[2])>>]>>]>>]>>]>>])

\* grids that end before, at and after the last week of the attendance
TimetableResponses ==
    {TimetableRoot(MaxWeeks - 1), TimetableRoot(MaxWeeks), TimetableRoot(MaxWeeks + 1)}

LogonResponses ==
    {Root("LogonResults", [Success |-> <<T_YES>>, Key |-> <<"key-s">>,
                           LogonLevel |-> <<<<"1">>>>]),
     Root("LogonResults", [Success |-> <<T_YES>>, Key |-> <<"key-t">>,
                           LogonLevel |-> <<<<"1", "0">>>>]),
     Root("LogonResults", [Success |-> <<<<"N", "O">>>>])}

AbsenceStatsResponses ==
    {Root("StudentAbsenceStatsResults",
          [NumberRecords |-> <<"1">>,
           Students |-> <<[Student |-> <<[PctgeP |-> <<"95">>]>>]>>]),
     Root("StudentAbsenceStatsResults", EmptyObject)}

\* a Day element with the Date elements dates
CalendarDay(dates, dayTT) ==
    [Date |-> dates, Status |-> <<"Open">>, DayTT |-> <<dayTT>>,
     Term |-> <<<<"1">>>>, Week |-> <<<<"2">>>>]

CalendarResponses ==
    {Root("CalendarResults",
          [ErrorCode |-> <<<<"0">>>>,
           Days |-> <<[Day |-> <<CalendarDay(<<(<<"d1">>)>>, <<"1">>),
                                 CalendarDay(<<(<<"d2">>)>>, <<>>),
                                 CalendarDay(<<(<<"d3">>), <<"d4">>>>, <<"3">>),
                                 [Status |-> <<"Open">>, DayTT |-> <<(<<"4">>)>>,
                                  Term |-> <<(<<"1">>)>>, Week |-> <<(<<"2">>)>>],
                                 CalendarDay(<<(<<"u","n","d","e","f","i","n","e","d">>)>>,
                                             <<"5">>),
                                 CalendarDay(<<(<<"_","_","p","r","o","t","o","_","_">>)>>,
                                             <<"6">>)>>]>>]),
     Root("CalendarResults", [ErrorCode |-> <<<<"5">>>>])}

DetailsStudent ==
    [f \in DetailsFields |->
        IF f = "HomeAddress" THEN << <<"1", " ", "A", "\n", "B">> >>
        ELSE IF f = "Gender" THEN <<"Male">>
        ELSE IF f = "Medical" THEN <<"">>
        ELSE IF f = "AllowedPanadol" THEN <<"Y">>
        ELSE <<f>>]

DetailsResponses ==
    {Root("StudentDetailsResults", [Students |-> <<[Student |-> <<DetailsStudent>>]>>]),
     Root("StudentDetailsResults", [Students |-> <<[Student |-> <<EmptyObject>>]>>])}

ResultEntry(grade) ==
    [Title |-> <<"Essay">>, Grade |-> <<grade>>, ResultPublished |-> <<"2024-05-01">>,
     Credits |-> <<<<"4">>>>, CreditsPassed |-> <<<<"4">>>>,
     Number |-> <<<<"9","1","1">>>>, Version |-> <<<<"2">>>>]

ResultsResponses ==
    {Root("StudentResultsResults",
          [ResultLevels |-> <<[ResultLevel |->
              <<[NCEALevel |-> <<<<"1">>>>,
                 Results |-> <<[Result |-> <<ResultEntry(T_Not \o <<" ">> \o T_Achieved),
                                             ResultEntry(<<"I","B"," ","7">>)>>]>>],
                [NCEALevel |-> <<<<"0">>>>,
                 Results |-> <<[Result |-> <<ResultEntry(T_Merit)>>]>>]>>]>>]),
     Root("StudentResultsResults", EmptyObject)}

SearchResponses ==
    {Root("SearchStudentsResults", [Students |-> <<[Student |-> <<"a", "b">>]>>]),
     Root("SearchStudentsResults", EmptyObject)}

SummaryStudent ==
    [NCEA |-> <<[q \in {QualificationFields[i] : i \in 1..6} |-> <<"No">>]>>,
     CreditsInternal |-> <<[NotAchieved |-> <<"0">>, Achieved |-> <<"8">>,
                            Total |-> <<"8">>]>>,
     CreditsTotal |-> <<[NotAchieved |-> <<"0">>, Achieved |-> <<"8">>,
                         Merit |-> <<"3">>, Total |-> <<"11">>]>>,
     YearTotals |-> <<[YearTotal |-> <<[Year |-> <<"2024">>, Achieved |-> <<"8">>,
                                        Merit |-> <<"0">>]>>]>>,
     LevelTotals |-> <<[LevelTotal |-> <<[Level |-> <<"1">>, Achieved |-> <<"8">>]>>]>>]

SummaryResponses ==
    {Root("StudentNCEASummaryResults", [Students |-> <<[Student |-> <<SummaryStudent>>]>>]),
     Root("StudentNCEASummaryResults", [Students |-> <<[Student |-> <<EmptyObject>>]>>])}

CommandForms == {[Command |-> "GetGlobals", Key |-> "vtku"]}

CommandResponses == {Root("GlobalsResults", [NumberRecords |-> <<"0">>])}

\* the documents the service may answer a command with
Responses(op) ==
    CASE op = "authenticate" -> LogonResponses \cup {ErrorRoot("LogonResults")}
      [] op = "getAbsences" ->
             AttendanceResponses \cup {ErrorRoot("StudentAttendanceResults")}
      [] op = "getAbsencesStatistics" ->
             AbsenceStatsResponses \cup {ErrorRoot("StudentAbsenceStatsResults")}
      [] op = "getTimeTable" ->
             TimetableResponses \cup {ErrorRoot("StudentTimetableResults")}
      [] op = "getCalendar" -> CalendarResponses \cup {ErrorRoot("CalendarResults")}
      [] op = "getDetails" -> DetailsResponses \cup {ErrorRoot("StudentDetailsResults")}
      [] op = "getResults" -> ResultsResponses \cup {ErrorRoot("StudentResultsResults")}
      [] op = "searchStudents" ->
             SearchResponses \cup {ErrorRoot("SearchStudentsResults")}
      [] op = "getNCEASummary" ->
             SummaryResponses \cup {ErrorRoot("StudentNCEASummaryResults")}
      [] op = "sendCommand" -> CommandResponses \cup {ErrorRoot("GlobalsResults")}

\* what the request callback may be called with: (err) alone, or a body that
\* is either malformed or one of the documents
Transports(op) ==
    {[err |-> <<RequestError>>, body |-> <<>>],
     [err |-> <<>>, body |-> <<[xml |-> "malformed"]>>]}
    \cup {[err |-> <<>>, body |-> <<[xml |-> "document", root |-> r]>>] : r \in Responses(op)}

----------------------------------------------------------------------------
\* The session as a state machine.  A call record is the promise a method
\* returned together with what its closures hold.

Ops == {"authenticate", "getAbsences", "getAbsencesStatistics", "getTimeTable",
        "getCalendar", "getDetails", "getResults", "searchStudents",
        "getNCEASummary", "sendCommand"}

NoArgs == [none |-> TRUE]

NoForm == [none |-> TRUE]

\* this.fetch(form): one request is issued and the promise is pending
NewCall(op, args, form, wk) ==
    [op |-> op, args |-> args, form |-> form, thisWkNo |-> wk,
     state |-> "pending", value |-> Null, reply |-> <<>>,
     requests |-> 1, parses |-> 0, uncaught |-> FALSE]

\* a method that settles or returns without dispatching
Immediate(op, args, state, value, wk) ==
    [op |-> op, args |-> args, form |-> NoForm, thisWkNo |-> wk,
     state |-> state, value |-> value, reply |-> <<>>,
     requests |-> 0, parses |-> 0, uncaught |-> FALSE]

Held == BagToSet(calls)

Pending(op) == {c \in Held : c.op = op /\ c.state = "pending"}

Add(c) == /\ BagCardinality(calls) < MaxCalls
          /\ calls' = calls (+) SetToBag({c})

\* .catch(err => reject(err)) when fetch rejected, the handler's promise when
\* it resolved
Outer(f, handled) ==
    IF f.promise.state = "resolved" THEN handled
    ELSE IF f.promise.state = "rejected" THEN reject(PendingPromise, f.promise.value)
    ELSE PendingPromise

\* the call c after the request callback ran with tr and the chain settled
Replied(c, tr, f, outer) ==
    [c EXCEPT !.state = outer.state, !.value = outer.value, !.reply = <<tr>>,
              !.parses = f.parses, !.uncaught = f.uncaught]

Replace(c, d) == calls' = (calls (-) SetToBag({c})) (+) SetToBag({d})

Unit == <<arg, ret>>

authenticate(userObj) ==
    /\ Add(NewCall("authenticate", userObj,
                   [Command |-> "Logon", Key |-> "vtku",
                    Username |-> userObj.username, Password |-> userObj.password],
                   <<>>))
    /\ UNCHANGED <<WkNo, Unit>>

authenticate_response(c, tr) ==
    LET f == fetch_callback(tr.err, tr.body)
    IN  /\ Replace(c, Replied(c, tr, f,
                   IF f.promise.state = "resolved"
                   THEN authenticate_then(c.args, f.promise.value.v)
                   ELSE Outer(f, PendingPromise)))
        /\ UNCHANGED <<WkNo, Unit>>

getAbsences(credentials) ==
    /\ Add(NewCall("getAbsences", credentials,
                   [Command |-> "GetStudentAttendance", Key |-> credentials.key,
                    StudentID |-> credentials.username, Grid |-> this.TT],
                   <<>>))
    /\ UNCHANGED <<WkNo, Unit>>

getAbsences_response(c, tr) ==
    LET f == fetch_callback(tr.err, tr.body)
    IN  IF f.promise.state = "resolved"
        THEN LET h == getAbsences_then(f.promise.value.v, WkNo)
             IN  /\ Replace(c, Replied(c, tr, f, h.promise))
                 /\ WkNo' = h.WkNo
                 /\ UNCHANGED Unit
        ELSE /\ Replace(c, Replied(c, tr, f, Outer(f, PendingPromise)))
             /\ UNCHANGED <<WkNo, Unit>>

getAbsencesStatistics(credentials) ==
    /\ Add(NewCall("getAbsencesStatistics", credentials,
                   [Command |-> "GetStudentAbsenceStats", Key |-> credentials.key,
                    StudentID |-> credentials.username, Grid |-> this.year],
                   <<>>))
    /\ UNCHANGED <<WkNo, Unit>>

getAbsencesStatistics_response(c, tr) ==
    LET f == fetch_callback(tr.err, tr.body)
    IN  /\ Replace(c, Replied(c, tr, f,
                   IF f.promise.state = "resolved"
                   THEN getAbsencesStatistics_then(f.promise.value.v)
                   ELSE Outer(f, PendingPromise)))
        /\ UNCHANGED <<WkNo, Unit>>

\* a getTimeTable that applies the "assume week 1" default itself
getTimeTable_AssumesWeek(credentials) ==
    /\ IF Falsy(WkNo)
       THEN /\ Add(Immediate("getTimeTable", credentials, "rejected",
                             ErrorObj("Error", StateErrorMessage), WkNo))
            /\ WkNo' = <<1>>
       ELSE /\ Add(NewCall("getTimeTable", credentials, TimeTableForm(credentials), WkNo))
            /\ UNCHANGED WkNo
    /\ UNCHANGED Unit

\* var thisWkNo = this.WkNo; without it the promise is rejected at once and
\* nothing is dispatched
getTimeTable(credentials) ==
    /\ IF Falsy(WkNo)
       THEN Add(Immediate("getTimeTable", credentials, "rejected",
                          ErrorObj("Error", StateErrorMessage), WkNo))
       ELSE Add(NewCall("getTimeTable", credentials, TimeTableForm(credentials), WkNo))
    /\ UNCHANGED <<WkNo, Unit>>

\* what the .then handler of getTimeTable does with each timetable the model
\* draws, for each week index captured by the call and each this.WkNo at the
\* time of the response: getTimeTable_then, evaluated once per case
getTimeTable_outcomes ==
    [response \in TimetableResponses |->
        [thisWkNo \in 1..MaxWeeks |->
            [currentWkNo \in 1..MaxWeeks |->
                getTimeTable_then(response, <<thisWkNo>>, <<currentWkNo>>)]]]

getTimeTable_response(c, tr) ==
    LET f == fetch_callback(tr.err, tr.body)
    IN  /\ Replace(c, Replied(c, tr, f,
                   IF f.promise.state = "resolved"
                   THEN Settle(PendingPromise,
                               getTimeTable_outcomes[f.promise.value.v][c.thisWkNo[1]][WkNo[1]])
                   ELSE Outer(f, PendingPromise)))
        /\ UNCHANGED <<WkNo, Unit>>


getCalendar ==
    /\ Add(NewCall("getCalendar", NoArgs,
                   [Command |-> "GetCalendar", Year |-> this.year, Key |-> "vtku"],
                   <<>>))
    /\ UNCHANGED <<WkNo, Unit>>

getCalendar_response(c, tr) ==
    LET f == fetch_callback(tr.err, tr.body)
    IN  /\ Replace(c, Replied(c, tr, f,
                   IF f.promise.state = "resolved"
                   THEN getCalendar_then(f.promise.value.v)
                   ELSE Outer(f, PendingPromise)))
        /\ UNCHANGED <<WkNo, Unit>>

getDetails(credentials) ==
    /\ Add(NewCall("getDetails", credentials,
                   [Command |-> "GetStudentDetails", Key |-> credentials.key,
                    StudentID |-> credentials.username, PastoralNotes |-> ""],
                   <<>>))
    /\ UNCHANGED <<WkNo, Unit>>

getDetails_response(c, tr) ==
    LET f == fetch_callback(tr.err, tr.body)
    IN  /\ Replace(c, Replied(c, tr, f,
                   IF f.promise.state = "resolved"
                   THEN getDetails_then(f.promise.value.v)
                   ELSE Outer(f, PendingPromise)))
        /\ UNCHANGED <<WkNo, Unit>>

getResults(credentials) ==
    /\ Add(NewCall("getResults", credentials,
                   [Command |-> "GetStudentResults", Key |-> credentials.key,
                    StudentID |-> credentials.username],
                   <<>>))
    /\ UNCHANGED <<WkNo, Unit>>

getResults_response(c, tr) ==
    LET f == fetch_callback(tr.err, tr.body)
    IN  /\ Replace(c, Replied(c, tr, f,
                   IF f.promise.state = "resolved"
                   THEN Settle(PendingPromise, getResults_then(f.promise.value.v))
                   ELSE Outer(f, PendingPromise)))
        /\ UNCHANGED <<WkNo, Unit>>

searchStudents(credentials, query) ==
    /\ Add(NewCall("searchStudents", [credentials |-> credentials, query |-> query],
                   [Command |-> "SearchStudents", Key |-> credentials.key,
                    Criteria |-> query],
                   <<>>))
    /\ UNCHANGED <<WkNo, Unit>>

searchStudents_response(c, tr) ==
    LET f == fetch_callback(tr.err, tr.body)
    IN  /\ Replace(c, Replied(c, tr, f,
                   IF f.promise.state = "resolved"
                   THEN searchStudents_then(f.promise.value.v)
                   ELSE Outer(f, PendingPromise)))
        /\ UNCHANGED <<WkNo, Unit>>

getNCEASummary(credentials) ==
    /\ Add(NewCall("getNCEASummary", credentials,
                   [Command |-> "GetStudentNCEASummary", Key |-> credentials.key,
                    StudentID |-> credentials.username],
                   <<>>))
    /\ UNCHANGED <<WkNo, Unit>>

getNCEASummary_response(c, tr) ==
    LET f == fetch_callback(tr.err, tr.body)
    IN  /\ Replace(c, Replied(c, tr, f,
                   IF f.promise.state = "resolved"
                   THEN getNCEASummary_then(f.promise.value.v)
                   ELSE Outer(f, PendingPromise)))
        /\ UNCHANGED <<WkNo, Unit>>

sendCommand(form) ==
    /\ Add(NewCall("sendCommand", form, form, <<>>))
    /\ UNCHANGED <<WkNo, Unit>>

sendCommand_response(c, tr) ==
    LET f == fetch_callback(tr.err, tr.body)
    IN  /\ Replace(c, Replied(c, tr, f,
                   IF f.promise.state = "resolved"
                   THEN sendCommand_then(f.promise.value.v)
                   ELSE Outer(f, PendingPromise)))
        /\ UNCHANGED <<WkNo, Unit>>

\* getFile only throws.  The message is the text of the source with ' where
\* the source has a back quote, a character no TLA+ string can hold.
getFile ==
    /\ Add(Immediate("getFile", NoArgs, "thrown",
                     ErrorObj("Error",
                              "KAMAR has deprecated the 'FileName' atrribute, so the 'getFile' method is also deprecated.\nPlease use the 'sendCommand' method instead."),
                     <<>>))
    /\ UNCHANGED <<WkNo, Unit>>

\* makevCardFromDetails returns the card; details is what getDetails gave
makevCardFromDetails(credentials, details) ==
    /\ Add(Immediate("makevCardFromDetails", credentials, "returned",
                     Val([vCard |-> vCardLines(credentials, details, "now")]), <<>>))
    /\ UNCHANGED <<WkNo, Unit>>

\* the caller lets go of a promise that has settled (or of a returned value)
Release(c) ==
    /\ c.state # "pending"
    /\ calls' = calls (-) SetToBag({c})
    /\ UNCHANGED <<WkNo, Unit>>

Users == {[username |-> "15999", password |-> "pw"]}

Queries == {"smith"}

Init ==
    /\ WkNo = <<>>
    /\ calls = EmptyBag
    /\ arg = <<>>
    /\ ret = <<>>

Next ==
    \/ \E u \in Users : authenticate(u)
    \/ \E c \in Pending("authenticate") : \E tr \in Transports(c.op) :
           authenticate_response(c, tr)
    \/ getAbsences(Student)
    \/ \E c \in Pending("getAbsences") : \E tr \in Transports(c.op) :
           getAbsences_response(c, tr)
    \/ getAbsencesStatistics(Student)
    \/ \E c \in Pending("getAbsencesStatistics") : \E tr \in Transports(c.op) :
           getAbsencesStatistics_response(c, tr)
    \/ \E cr \in Credentials : getTimeTable(cr)
    \/ \E c \in Pending("getTimeTable") : \E tr \in Transports(c.op) :
           getTimeTable_response(c, tr)
    \/ getCalendar
    \/ \E c \in Pending("getCalendar") : \E tr \in Transports(c.op) :
           getCalendar_response(c, tr)
    \/ getDetails(Student)
    \/ \E c \in Pending("getDetails") : \E tr \in Transports(c.op) :
           getDetails_response(c, tr)
    \/ getResults(Student)
    \/ \E c \in Pending("getResults") : \E tr \in Transports(c.op) :
           getResults_response(c, tr)
    \/ \E q \in Queries : searchStudents(Teacher, q)
    \/ \E c \in Pending("searchStudents") : \E tr \in Transports(c.op) :
           searchStudents_response(c, tr)
    \/ getNCEASummary(Student)
    \/ \E c \in Pending("getNCEASummary") : \E tr \in Transports(c.op) :
           getNCEASummary_response(c, tr)
    \/ \E form \in CommandForms : sendCommand(form)
    \/ \E c \in Pending("sendCommand") : \E tr \in Transports(c.op) :
           sendCommand_response(c, tr)
    \/ getFile
    \/ makevCardFromDetails(Student, DetailsRecord(DetailsStudent))
    \/ \E c \in Held : Release(c)

Spec == Init /\ [][Next]_vars

----------------------------------------------------------------------------
\* Unit exploration of the decoders: arg is drawn at Init, the decoder runs
\* once and leaves its result in ret; what the method writes to the session
\* is written in the same step.

MaxFrags == 2       \* pieces a raw grade string is put together from
MaxDays == 5        \* Day elements in a week of an attendance response

Session == <<WkNo, calls>>

Fragments ==
    {T_Excellence, T_Merit, T_Not, T_Achieved, T_Achievement,
     <<"A","c","h","i","e","v","e">>, <<"n","o","t">>, T_Not \o <<" ">>, <<"I","B","7">>}

RECURSIVE GradeStrings(_)
GradeStrings(n) ==
    IF n = 0 THEN {<<>>}
    ELSE GradeStrings(n - 1) \cup {g \o fr : g \in GradeStrings(n - 1), fr \in Fragments}

\* a results document holding one level with the single grade g and the
\* NCEALevel elements nceaLevel
GradeDocument(g, nceaLevel) ==
    Root("StudentResultsResults",
         [ResultLevels |-> <<[ResultLevel |->
             <<[NCEALevel |-> nceaLevel,
                Results |-> <<[Result |-> <<ResultEntry(g)>>]>>]>>]>>])

InitGrade ==
    /\ WkNo = <<>>
    /\ calls = EmptyBag
    /\ arg \in {[fn |-> "colourGrade", grade |-> g] : g \in GradeStrings(MaxFrags)}
             \cup {[fn |-> "getResults", grade |-> g, response |-> GradeDocument(g, l)]
                   : g \in GradeStrings(MaxFrags),
                     l \in {<<(<<"0">>)>>, <<(<<"0", ".", "0">>)>>, <<(<<"2">>)>>,
                            <<(<<"", "0">>)>>, <<(<<"0">>), <<"0">>>>}}
    /\ ret = <<>>

Run_colourGrade ==
    /\ arg.fn = "colourGrade"
    /\ ret = <<>>
    /\ ret' = <<colourGrade(arg.grade)>>
    /\ UNCHANGED <<Session, arg>>

Run_getResults ==
    /\ arg.fn = "getResults"
    /\ ret = <<>>
    /\ ret' = <<Settle(PendingPromise, getResults_then(arg.response))>>
    /\ UNCHANGED <<Session, arg>>

NextGrade == Run_colourGrade \/ Run_getResults

SpecGrade == InitGrade /\ [][NextGrade]_vars

DaySamples ==
    {EmptyObject, Slot(<<>>), Slot(Rep("P", 3)), Slot(Rep("L", 7)),
     Slot(<<"P","P","L","L","?","?","?","?","?","?">>)}

\* the Day arrays of 1..n elements (an array xml2js builds is never empty)
RECURSIVE DayLists(_)
DayLists(n) ==
    IF n = 1 THEN {<<d>> : d \in DaySamples}
    ELSE DayLists(n - 1) \cup {Append(l, d) : l \in {m \in DayLists(n - 1) : Len(m) = n - 1},
                                              d \in DaySamples}

\* an attendance document of one week with the given Day elements
WeekDocument(days) ==
    Root("StudentAttendanceResults",
         [Weeks |-> <<[Week |-> <<[WeekStart |-> <<"week-1">>,
                                   Days |-> <<[Day |-> days]>>]>>]>>])

InitAbsences ==
    /\ WkNo = <<>>
    /\ calls = EmptyBag
    /\ arg \in {[fn |-> "getAbsences", days |-> l, response |-> WeekDocument(l)]
                : l \in DayLists(MaxDays)}
    /\ ret = <<>>

Run_getAbsences ==
    /\ arg.fn = "getAbsences"
    /\ ret = <<>>
    /\ LET h == getAbsences_then(arg.response, WkNo)
       IN  /\ ret' = <<h.promise>>
           /\ WkNo' = h.WkNo
    /\ UNCHANGED <<calls, arg>>

NextAbsences == Run_getAbsences

SpecAbsences == InitAbsences /\ [][NextAbsences]_vars

\* The timetable decoder on day strings of any number of slots and on period
\* slots of any number of fields.  The session is the one a getAbsences of a
\* single week leaves: this.WkNo = 1.

MaxSlots == 9       \* '|'-separated slots in a day string
MaxFields == 5      \* '-'-separated fields in a period slot

T_Math == <<"M","a","t","h">>
T_Smith == <<"S","m","i","t","h">>
T_Room5 == <<"R","o","o","m","5">>

SlotSamples == {PeriodSlot(1, <<"R">>), <<>>}

\* the slots of a day string: the header slot, then up to n - 1 more
RECURSIVE SlotLists(_)
SlotLists(n) ==
    IF n = 1 THEN {<<(<<"H">>)>>}
    ELSE SlotLists(n - 1) \cup {Append(l, sl) : l \in {m \in SlotLists(n - 1) : Len(m) = n - 1},
                                               sl \in SlotSamples}

FieldSamples == {<<>>, <<"A">>, <<"B">>, T_Math, T_Smith, T_Room5}

\* the fields of a period slot, 1..n of them
RECURSIVE FieldLists(_)
FieldLists(n) ==
    IF n = 1 THEN {<<fd>> : fd \in FieldSamples}
    ELSE FieldLists(n - 1) \cup {Append(l, fd) : l \in {m \in FieldLists(n - 1) : Len(m) = n - 1},
                                                fd \in FieldSamples}

\* a timetable of the weeks 1 and 2 whose day d of week 1 is dayString
TimetableDocument(d, dayString) ==
    Root("StudentTimetableResults",
         [Students |-> <<[Student |-> <<[TimetableData |->
             <<[wk \in {WeekKey(n) : n \in 1..2} |->
                   <<[dk \in {DayKeyTT(e) : e \in 1..5} |->
                         IF wk = WeekKey(1) /\ dk = DayKeyTT(d)
                         THEN <<dayString>>
                         ELSE <<DayString(wk[2])>>]>>]>>]>>]>>])

InitTimetable ==
    /\ WkNo = <<1>>
    /\ calls = EmptyBag
    /\ arg \in {[fn |-> "getTimeTable", day |-> d, slots |-> l,
                  response |-> TimetableDocument(d, Join(l, "|"))]
                 : d \in 1..5, l \in SlotLists(MaxSlots)}
             \cup {[fn |-> "PeriodOf", fields |-> l, slot |-> Join(l, "-")]
                   : l \in FieldLists(MaxFields)}
    /\ ret = <<>>

Run_getTimeTable ==
    /\ arg.fn = "getTimeTable"
    /\ ret = <<>>
    /\ ret' = <<Settle(PendingPromise, getTimeTable_then(arg.response, WkNo, WkNo))>>
    /\ UNCHANGED <<Session, arg>>

Run_PeriodOf ==
    /\ arg.fn = "PeriodOf"
    /\ ret = <<>>
    /\ ret' = <<PeriodOf(arg.slot)>>
    /\ UNCHANGED <<Session, arg>>

NextTimetable == Run_getTimeTable \/ Run_PeriodOf

SpecTimetable == InitTimetable /\ [][NextTimetable]_vars

----------------------------------------------------------------------------
\* Vocabulary of the properties

\* c entered the bag in this step
NewlyIn(c) == CopiesIn(c, calls') > CopiesIn(c, calls)

\* c was just made by a method call / c just received its reply
JustCalled(c) == NewlyIn(c) /\ c.reply = <<>>
JustReplied(c) == NewlyIn(c) /\ c.reply # <<>>

\* transport and deserialization of c's dispatch succeeded
Deserialized(c) ==
    /\ c.reply # <<>>
    /\ c.reply[1].err = <<>>
    /\ c.reply[1].body[1].xml = "document"

TransportFailed(c) == c.reply # <<>> /\ c.reply[1].err # <<>>

ReplyRoot(c) == c.reply[1].body[1].root

\* the sole top-level result object of the reply
ReplyResult(c) == ReplyRoot(c)[CHOOSE k \in DOMAIN ReplyRoot(c) : TRUE]

CarriesError(c) == "Error" \in DOMAIN ReplyResult(c)

\* the dispatch of c returned a response to the method's decoder
DispatchReturned(c) == Deserialized(c) /\ ~CarriesError(c)

IsStateError(c) ==
    /\ c.state = "rejected"
    /\ c.value.t = "Error"
    /\ c.value.message = StateErrorMessage

\* pat occurs in s, stated by the lengths of what precedes and follows it
Contains(s, pat) ==
    \E a \in 0..Len(s) : \E b \in 0..Len(s) :
        /\ a + Len(pat) + b = Len(s)
        /\ \A i \in 1..Len(pat) : s[a + i] = pat[i]

----------------------------------------------------------------------------
\* C1: while this.WkNo has never been set, every getTimeTable call is
\* rejected with the state error and dispatches nothing, whatever the
\* credentials and whatever else the caller holds or did before.
C1_FreshTimeTableFails ==
    [][WkNo = <<>> =>
          \A c \in BagToSet(calls') :
              (c.op = "getTimeTable" /\ JustCalled(c)) =>
                  IsStateError(c) /\ c.requests = 0]_vars

\* a teacher's getTimeTable rejected on the fresh session while another
\* method's dispatch is in flight
C1_Witness ==
    /\ WkNo = <<>>
    /\ \E c \in Held : c.op = "getTimeTable" /\ c.args = Teacher /\ IsStateError(c)
    /\ \E d \in Held : d.op = "getResults" /\ d.state = "pending"

\* the weeks of the reply, when Weeks is there
ReplyWeeks(c) == ReplyRoot(c).StudentAttendanceResults.Weeks[1]

\* Weeks holds a Week list whose entries each carry WeekStart and Days/Day
WeeksDecodable(c) ==
    /\ "Week" \in DOMAIN ReplyWeeks(c)
    /\ \A i \in DOMAIN ReplyWeeks(c).Week :
           /\ {"WeekStart", "Days"} \subseteq DOMAIN ReplyWeeks(c).Week[i]
           /\ "Day" \in DOMAIN ReplyWeeks(c).Week[i].Days[1]

\* while the rejected "assuming week 1" call is held, a getTimeTable call is
\* dispatched rather than rejected with the state error
TimeTableAfterAssumedWeek ==
    (\E a \in Held : /\ a.op = "getAbsences"
                     /\ DispatchReturned(a)
                     /\ WeeksAbsent(ReplyRoot(a))) =>
        \A c \in BagToSet(calls') :
            (c.op = "getTimeTable" /\ JustCalled(c)) =>
                ~IsStateError(c) /\ c.state = "pending"

\* C2 as stated: a getAbsences whose dispatch returned a response resolves
\* and sets this.WkNo to the number of decoded weeks whenever Weeks is
\* present, and sets this.WkNo to 1 and rejects with the "assuming week 1"
\* message when Weeks is absent; after the second case a getTimeTable is not
\* rejected with the state error.
C2_WeeksPresentSucceeds ==
    [][/\ \A c \in BagToSet(calls') :
              (c.op = "getAbsences" /\ JustReplied(c) /\ DispatchReturned(c)) =>
                  /\ WeeksAbsent(ReplyRoot(c)) =>
                        /\ WkNo' = <<1>>
                        /\ c.state = "rejected"
                        /\ c.value = Str("No Absences setup, assuming week 1")
                  /\ ~WeeksAbsent(ReplyRoot(c)) =>
                        /\ c.state = "resolved"
                        /\ WkNo' = <<Len(c.value.v.Absences)>>
       /\ TimeTableAfterAssumedWeek]_vars

\* C2 amended: a getAbsences whose dispatch returned a response sets
\* this.WkNo to 1 and rejects with the "assuming week 1" message when Weeks
\* is absent.  When Weeks is present and holds a Week list whose entries each
\* carry WeekStart and Days/Day, it resolves with one decoded week per entry
\* and this.WkNo is their number.  When Weeks is present without that shape,
\* the call is rejected with the TypeError of the failed read and this.WkNo
\* keeps the value it had.  After the Weeks-absent case a getTimeTable is
\* dispatched rather than rejected with the state error.
C2_AbsencesSetWeekIndex ==
    [][/\ \A c \in BagToSet(calls') :
              (c.op = "getAbsences" /\ JustReplied(c) /\ DispatchReturned(c)) =>
                  /\ WeeksAbsent(ReplyRoot(c)) =>
                        /\ WkNo' = <<1>>
                        /\ c.state = "rejected"
                        /\ c.value = Str("No Absences setup, assuming week 1")
                  /\ (~WeeksAbsent(ReplyRoot(c)) /\ WeeksDecodable(c)) =>
                        /\ c.state = "resolved"
                        /\ Len(c.value.v.Absences) = Len(ReplyWeeks(c).Week)
                        /\ WkNo' = <<Len(ReplyWeeks(c).Week)>>
                  /\ (~WeeksAbsent(ReplyRoot(c)) /\ ~WeeksDecodable(c)) =>
                        /\ c.state = "rejected"
                        /\ c.value.t = "Error"
                        /\ c.value.name = "TypeError"
                        /\ WkNo' = WkNo
       /\ TimeTableAfterAssumedWeek]_vars

\* a getAbsences that decoded MaxWeeks weeks and one whose Weeks element
\* holds no Week list are both held: the first resolved, the second was
\* rejected with the TypeError, and this.WkNo is the number of weeks of the
\* first
C2_Witness ==
    /\ WkNo = <<MaxWeeks>>
    /\ \E a \in Held : /\ a.op = "getAbsences"
                       /\ DispatchReturned(a)
                       /\ ~WeeksAbsent(ReplyRoot(a))
                       /\ WeeksDecodable(a)
                       /\ a.state = "resolved"
                       /\ Len(a.value.v.Absences) = MaxWeeks
    /\ \E b \in Held : /\ b.op = "getAbsences"
                       /\ DispatchReturned(b)
                       /\ ~WeeksAbsent(ReplyRoot(b))
                       /\ "Week" \notin DOMAIN ReplyWeeks(b)
                       /\ b.state = "rejected"
                       /\ b.value.name = "TypeError"

\* C3: a getTimeTable called when this.WkNo = N resolves with the weeks N and
\* N+1 of the response (week numbers N and N+1, periods taken from "W"+N and
\* "W"+(N+1)), and resolves whenever the response holds both weeks, also
\* when a getAbsences changed this.WkNo before the response arrived.
C3_TimetableUsesCapturedWeek ==
    \A c \in Held :
        (c.op = "getTimeTable" /\ DispatchReturned(c)) =>
            LET N == c.thisWkNo[1]
                data == ReplyRoot(c).StudentTimetableResults.Students[1].Student[1].TimetableData[1]
            IN  /\ (WeekKey(N) \in DOMAIN data /\ WeekKey(N + 1) \in DOMAIN data) =>
                       c.state = "resolved"
                /\ c.state = "resolved" =>
                       /\ c.value.v.thisWk.weekNo = N
                       /\ c.value.v.nextWk.weekNo = N + 1
                       /\ \A p \in 1..7 :
                              /\ c.value.v.thisWk.MO[p].subject = <<"M", ToString(N)>>
                              /\ c.value.v.nextWk.FR[p].subject = <<"M", ToString(N + 1)>>

\* a resolved timetable for the week captured at the call although
\* this.WkNo has changed since
C3_Witness ==
    \E c \in Held :
        /\ c.op = "getTimeTable"
        /\ c.state = "resolved"
        /\ c.thisWkNo # WkNo
        /\ c.value.v.thisWk.weekNo = c.thisWkNo[1]

\* the TimetableData object of the reply to c
ReplyGrid(c) ==
    ReplyRoot(c).StudentTimetableResults.Students[1].Student[1].TimetableData[1]

\* C11: a getTimeTable called with week index N whose response lacks the key
\* "W"+N or the key "W"+(N+1) is rejected with the TypeError the decoder threw
\* and never resolves, with both weeks or with thisWk alone.
C11_MissingWeekFailsWhole ==
    \A c \in Held :
        (c.op = "getTimeTable" /\ DispatchReturned(c)) =>
            LET N == c.thisWkNo[1]
            IN  (WeekKey(N) \notin DOMAIN ReplyGrid(c)
                 \/ WeekKey(N + 1) \notin DOMAIN ReplyGrid(c)) =>
                    /\ c.state = "rejected"
                    /\ c.value.t = "Error"
                    /\ c.value.name = "TypeError"

\* a getTimeTable for the last week of the grid (week N is there, week N+1
\* is not) has been rejected
C11_Witness ==
    \E c \in Held :
        /\ c.op = "getTimeTable"
        /\ DispatchReturned(c)
        /\ WeekKey(c.thisWkNo[1]) \in DOMAIN ReplyGrid(c)
        /\ WeekKey(c.thisWkNo[1] + 1) \notin DOMAIN ReplyGrid(c)
        /\ c.state = "rejected"
        /\ c.value.name = "TypeError"

\* C4: when transport and deserialization succeeded, a reply whose sole
\* result object carries Error rejects the call with {error: Error[0],
\* code: ErrorCode[0]} and delivers no result; otherwise the dispatch
\* (sendCommand) resolves with the deserialized root unchanged.  A call is
\* settled by its reply and a settled call never changes.
C4_EnvelopeOutcome ==
    /\ [](\A c \in Held :
              Deserialized(c) =>
                  /\ c.state \in {"resolved", "rejected"}
                  /\ CarriesError(c) =>
                        /\ c.state = "rejected"
                        /\ c.value = [t |-> "object",
                                      error |-> ReplyResult(c).Error[1],
                                      code |-> ReplyResult(c).ErrorCode[1]]
                  /\ (~CarriesError(c) /\ c.op = "sendCommand") =>
                        /\ c.state = "resolved"
                        /\ c.value = Val(ReplyRoot(c)))
    /\ [][\A c \in BagToSet(calls') :
              (c.state # "pending" /\ Deserialized(c)) =>
                  \/ JustReplied(c) /\ BagCardinality(calls') = BagCardinality(calls)
                  \/ CopiesIn(c, calls') <= CopiesIn(c, calls)]_vars

\* a sendCommand rejected with the remote error of its reply
C4_Witness ==
    \E c \in Held :
        /\ c.op = "sendCommand"
        /\ Deserialized(c)
        /\ CarriesError(c)
        /\ c.state = "rejected"
        /\ c.value.t = "object"
        /\ c.value.error = "Invalid Key"

\* C5: a dispatch issues one request, and after a transport failure the
\* call is rejected with the transport's error without the body being
\* deserialized (and so without the envelope being looked at).
C5_NoParseAfterTransportFailure ==
    \A c \in Held :
        /\ c.requests <= 1
        /\ c.reply # <<>> => c.requests = 1
        /\ TransportFailed(c) =>
              /\ c.state = "rejected"
              /\ c.value = RequestError
              /\ c.parses = 0

\* C10: this.WkNo changes only in the step in which a getAbsences call
\* receives a reply whose dispatch returned a response, and that step
\* settles this one call; no other method and no failed dispatch changes
\* it, and once set it is never unset.
C10_OnlyAbsencesWritesWeek ==
    [][/\ WkNo' # WkNo =>
              /\ BagCardinality(calls') = BagCardinality(calls)
              /\ \E c \in BagToSet(calls') :
                     /\ c.op = "getAbsences"
                     /\ JustReplied(c)
                     /\ DispatchReturned(c)
                     /\ c.state # "pending"
       /\ WkNo # <<>> => WkNo' # <<>>
       /\ WkNo' # <<>> => WkNo'[1] >= 1]_vars

\* a session whose WkNo was set by getAbsences and that has since had a
\* getAbsences dispatch fail in transport, leaving WkNo as it was
C10_Witness ==
    /\ WkNo = <<MaxWeeks>>
    /\ \E c \in Held : c.op = "getAbsences" /\ TransportFailed(c) /\ c.state = "rejected"

\* C9: for a well-formed reply getNCEASummary resolves with the summary
\* record, whose thisYear cells are '' wherever the source field is absent
\* or zero.
C9_SummaryDelivered ==
    \A c \in Held :
        (/\ c.op = "getNCEASummary"
         /\ DispatchReturned(c)
         /\ Has(ReplyRoot(c).StudentNCEASummaryResults.Students[1].Student[1], "NCEA")) =>
            /\ c.state = "resolved"
            /\ c.value.t = "value"
            /\ LET student == ReplyRoot(c).StudentNCEASummaryResults.Students[1].Student[1]
               IN  \A j \in 1..6 :
                       (\/ ~Has(student.CreditsInternal[1], cols[j])
                        \/ student.CreditsInternal[1][cols[j]] = <<"0">>) =>
                           c.value.v.thisYear.Internal[j] = <<>>

----------------------------------------------------------------------------
\* Properties of the decoders (unit exploration)

GradeLabels == {<<"E">>, <<"M">>, <<"N">>, <<"A">>}

T_Unknown == <<"U","n","k","n","o","w","n">>

MatchesAchieve(g) == Contains(g, T_Achievement) \/ Contains(g, T_Achieved)

MatchesNoPattern(g) ==
    /\ ~Contains(g, T_Excellence)
    /\ ~Contains(g, T_Merit)
    /\ ~Contains(g, T_Not)
    /\ ~MatchesAchieve(g)

\* the pair colourGrade produced in the current unit state, whether it was
\* run alone or inside the results decoder
GradePair ==
    IF arg.fn = "colourGrade" THEN ret[1]
    ELSE ret[1].value.v.results[1][1].grade

\* C6: colourGrade classifies by the first match in the order Excellence,
\* Merit, Not, Achieve(ment|d): E whenever "Excellence" occurs, M for
\* "Merit" without "Excellence", N for "Not" without those two, A when only
\* Achieve(ment|d) matches.
C6_FirstMatchOrder ==
    (ret # <<>> /\ arg.fn = "colourGrade") =>
        LET g == arg.grade
            n == ret[1][2]
        IN  /\ ret[1][1] = g
            /\ Contains(g, T_Excellence) => n = <<"E">>
            /\ (Contains(g, T_Merit) /\ ~Contains(g, T_Excellence)) => n = <<"M">>
            /\ (/\ Contains(g, T_Not)
                /\ ~Contains(g, T_Merit)
                /\ ~Contains(g, T_Excellence)) => n = <<"N">>
            /\ (/\ MatchesAchieve(g)
                /\ ~Contains(g, T_Not)
                /\ ~Contains(g, T_Merit)
                /\ ~Contains(g, T_Excellence)) => n = <<"A">>

\* "Not Achieved" has been classified, as N
C6_Witness ==
    /\ ret # <<>>
    /\ arg.fn = "colourGrade"
    /\ arg.grade = T_Not \o <<" ">> \o T_Achieved
    /\ ret[1][2] = <<"N">>

\* C7 as stated: the results decoder does not fail, a grade matching no
\* pattern is normalized to Unknown, and every normalized grade is one of
\* E, M, N, A, Unknown.
C7_UnmatchedIsUnknown ==
    ret # <<>> =>
        /\ arg.fn = "getResults" => ret[1].state = "resolved"
        /\ GradePair[2] \in GradeLabels \cup {T_Unknown}
        /\ MatchesNoPattern(arg.grade) => GradePair[2] = T_Unknown

Dashes == <<"-","-","-","-","-","-","-">>

\* the text of a Day element, <<>> when it has none
SlotText(day) == IF "_" \in DOMAIN day THEN day["_"] ELSE <<>>

\* the decoded week of the current unit state
DecodedWeek == ret[1].value.v.Absences[1]

\* C8 as stated, for the weeks that come with their five Day elements: the
\* decoded week has all of Mon..Fri, each a string of exactly 7 characters,
\* and "-------" where the day slot has no text.
C8_SevenCharacters ==
    (ret # <<>> /\ Len(arg.days) >= 5) =>
        /\ ret[1].state = "resolved"
        /\ \A j \in 1..5 :
               /\ daysManifest[j] \in DOMAIN DecodedWeek
               /\ Len(DecodedWeek[daysManifest[j]]) = 7
               /\ SlotText(arg.days[j]) = <<>> => DecodedWeek[daysManifest[j]] = Dashes

\* the names of the days in a decoded week
DayNames == <<"MO", "TU", "WE", "TH", "FR">>

\* the period an empty slot decodes to: subject, teacher and location undefined
EmptyPeriod == [subject |-> Undefined, location |-> Undefined, teacher |-> Undefined]

\* the periods decoded for the day whose string the unit state varies
DecodedDay == ret[1].value.v.thisWk[DayNames[arg.day]]

\* C12 as stated: whatever the number of slots of a day string, the call
\* resolves with exactly 7 periods for that day, the periods of the slots the
\* string lacks being empty periods; slots after the eighth are ignored.
C12_SevenPeriodsAnyLength ==
    (ret # <<>> /\ arg.fn = "getTimeTable") =>
        /\ ret[1].state = "resolved"
        /\ Len(DecodedDay) = 7
        /\ \A p \in 1..7 :
               DecodedDay[p] = IF p + 1 <= Len(arg.slots)
                               THEN PeriodOf(arg.slots[p + 1])
                               ELSE EmptyPeriod

\* field i (counted from 0) of the slot of the current unit state
SlotField(i) == IF i < Len(arg.fields) THEN arg.fields[i + 1] ELSE Undefined

\* C13: the period decoded from a slot has subject = field 2 and teacher =
\* field 3 of the slot split on '-', and location = field 4 when the slot has
\* a non-empty field 4 and = subject otherwise; "A-B-Math-Smith-Room5" gives
\* Math, Smith, Room5 and "A-B-Math-Smith-" gives location Math.  In a decoded
\* timetable the periods of the slots "A-B-M1-T-R" have location R and the
\* period of the slot "A-B-M1-T-" has location M1.
C13_PeriodFields ==
    /\ (ret # <<>> /\ arg.fn = "PeriodOf") =>
           /\ ret[1].subject = SlotField(2)
           /\ ret[1].teacher = SlotField(3)
           /\ ret[1].location = IF 4 < Len(arg.fields) /\ arg.fields[5] # <<>>
                                 THEN arg.fields[5]
                                 ELSE ret[1].subject
           /\ arg.fields = <<(<<"A">>), <<"B">>, T_Math, T_Smith, T_Room5>> =>
                  ret[1] = [subject |-> T_Math, teacher |-> T_Smith, location |-> T_Room5]
           /\ arg.fields = <<(<<"A">>), <<"B">>, T_Math, T_Smith, <<>>>> =>
                  ret[1] = [subject |-> T_Math, teacher |-> T_Smith, location |-> T_Math]
    /\ (ret # <<>> /\ arg.fn = "getTimeTable" /\ ret[1].state = "resolved") =>
           \A d \in 1..5 :
               LET periods == ret[1].value.v.nextWk[DayNames[d]]
               IN  /\ \A p \in 1..6 :
                          periods[p] = [subject |-> <<"M", "2">>, teacher |-> <<"T">>,
                                        location |-> <<"R">>]
                   /\ periods[7] = [subject |-> <<"M", "2">>, teacher |-> <<"T">>,
                                    location |-> <<"M", "2">>]

\* the slot "A-B-Math-Smith-" has been decoded with location Math
C13_Witness ==
    /\ ret # <<>>
    /\ arg.fn = "PeriodOf"
    /\ arg.slot = <<"A","-","B","-">> \o T_Math \o <<"-">> \o T_Smith \o <<"-">>
    /\ ret[1].location = T_Math
====
